---- MODULE Spec2Model ----
(***************************************************************************)
(* Conversation reconstruction and stream orchestration of the Q&A agent   *)
(* (python-agent/agent/agent.py, python-agent/api/routes.py,                *)
(* python-agent/agent/client.py).                                           *)
(*                                                                         *)
(* One chat invocation is a coroutine; its suspension points are the       *)
(* awaits on the Backend Gateway, the pulls from the agent runtime's event *)
(* stream and the yields to the transport layer.  Every action below is    *)
(* the code that runs between two suspension points of one invocation.     *)
(***************************************************************************)
EXTENDS Integers, Sequences, FiniteSets, TLC

\* ------------------------------------------------------------------ bounds
MaxEvents == 3      \* runtime events consumed by concurrent requests, in all
MaxSoloEvents == 4  \* runtime events consumed by a request running alone
MaxLongEvents == 4  \* runtime events of a request whose tools return long text
MaxPhraseEvents == 3  \* runtime events of a request in the status-heuristic runs
MaxChunkEvents == 4  \* runtime events of a request whose text and arguments vary
MaxReplayEvents == 2  \* runtime events of two requests on a stored conversation

Invs == {1, 2}     \* chat invocations (HTTP requests) in one behaviour
Convs == {1, 2}    \* conversations in the backend store

\* ------------------------------------------------------------ input domains
\* A Python str is a sequence of tokens: characters where the code looks
\* inside the text, one opaque token where it only copies or compares it.
None == <<"<None>">>                              \* Python None
Absent == <<"<absent>">>                          \* a key a dict does not hold
UserMessages == {<<"h", "i">>}                    \* ChatRequest.message
search_knowledge_base == <<"search_knowledge_base">>
semantic_search_knowledge_base == <<"semantic_search_knowledge_base">>
ToolNames == {search_knowledge_base, semantic_search_knowledge_base}
ToolInputs == {<< <<"query", "docker">> >>}       \* dict as ordered key/value pairs
Chunks == {<<>>, <<"a">>}                         \* chunk.content of a model delta
ToolOutputs == {<<"o", "k">>,                     \* event["data"]["output"]
                <<"N", "o", "t", " ", "f", "o", "u", "n", "d">>}

\* Arguments the model may give a tool, and the field constraints of the
\* gateway's request models.
MaxLimit == 101     \* largest limit / top_k argument tried
MaxEntries == 2     \* most Q&A pairs the knowledge base holds
MinQueryLen == 1
MaxQueryLen == 200
MinRequestLimit == 1
MaxRequestLimit == 100
MinIds == 1
MaxIds == 50
SearchCap == 10
TopicsLimit == 100
get_qa_by_ids == <<"get_qa_by_ids">>
list_knowledge_base_topics == <<"list_knowledge_base_topics">>
Queries == {<<>>, <<"d", "o", "c", "k", "e", "r">>,
            [k \in 1..(MaxQueryLen + 1) |-> "q"]}
Limits == 0..MaxLimit
UUIDs == {"uuid-a", "uuid-b"}
QaIdLists == {<<>>, <<"uuid-a">>, <<"uuid-a", "uuid-b">>, <<"bad">>,
              <<"uuid-a", "bad">>, [k \in 1..(MaxIds + 1) |-> "uuid-a"]}

\* --------------------------------------------------------------- json codec
\* json.dumps of a flat dict: the text as a sequence of tokens.
RECURSIVE dumps_items(_)
dumps_items(d) ==
    IF d = <<>> THEN <<>>
    ELSE <<d[1][1], ":", d[1][2]>>
         \o (IF Len(d) > 1 THEN <<",">> ELSE <<>>)
         \o dumps_items(Tail(d))

\* json_dumps that writes the dict as str() does, which is not JSON text.
json_dumps_as_repr(d) == <<"{'">> \o dumps_items(d) \o <<"'}">>

json_dumps(d) == <<"{">> \o dumps_items(d) \o <<"}">>

Punct == {"{", "}", ":", ","}

\* The items between the braces: key ":" value ("," key ":" value)*.
\* The result is <<TRUE, dict>> or <<FALSE, <<>>>> (json.JSONDecodeError).
RECURSIVE loads_items(_)
loads_items(s) ==
    IF Len(s) < 3 \/ s[1] \in Punct \/ s[2] # ":" \/ s[3] \in Punct
    THEN <<FALSE, <<>>>>
    ELSE IF Len(s) = 3 THEN <<TRUE, << <<s[1], s[3]>> >> >>
    ELSE IF s[4] # "," THEN <<FALSE, <<>>>>
    ELSE LET rest == loads_items(SubSeq(s, 5, Len(s)))
         IN  IF rest[1] THEN <<TRUE, << <<s[1], s[3]>> >> \o rest[2]>>
             ELSE <<FALSE, <<>>>>

json_loads(s) ==
    IF Len(s) < 2 \/ s[1] # "{" \/ s[Len(s)] # "}" THEN <<FALSE, <<>>>>
    ELSE IF Len(s) = 2 THEN <<TRUE, <<>>>>
    ELSE loads_items(SubSeq(s, 2, Len(s) - 1))

\* ------------------------------------------------------ history reconstructor
\* Python truthiness of a content value and `x or ""`.
Truthy(x) == x # None /\ x # <<>>
OrEmpty(x) == IF Truthy(x) THEN x ELSE <<>>

\* raw.get(key, default) and raw.get(key) on a payload whose absent keys
\* hold Absent.
Get(v, default) == IF v = Absent THEN default ELSE v
GetOrNone(v) == IF v = Absent THEN None ELSE v

\* langchain_tool_calls that takes empty arguments for a payload json.loads
\* rejects.
RECURSIVE langchain_tool_calls_lenient(_)
langchain_tool_calls_lenient(tcs) ==
    IF tcs = <<>> THEN <<TRUE, <<>>>>
    ELSE LET tc == tcs[1]
             parsed == json_loads(tc.function.arguments)
             rest == langchain_tool_calls_lenient(Tail(tcs))
         IN  <<TRUE, <<[name |-> tc.function.name,
                        args |-> IF parsed[1] THEN parsed[2] ELSE <<>>,
                        id |-> tc.id]>> \o rest[2]>>

\* One persisted tool call (OpenAI format) to the runtime's format; the
\* first component is FALSE when json.loads raises.
RECURSIVE langchain_tool_calls(_)
langchain_tool_calls(tcs) ==
    IF tcs = <<>> THEN <<TRUE, <<>>>>
    ELSE LET tc == tcs[1]
             parsed == json_loads(tc.function.arguments)
             rest == langchain_tool_calls(Tail(tcs))
         IN  IF parsed[1] /\ rest[1]
             THEN <<TRUE, <<[name |-> tc.function.name,
                             args |-> parsed[2],
                             id |-> tc.id]>> \o rest[2]>>
             ELSE <<FALSE, <<>>>>

HumanMessage(c) == [type |-> "human", content |-> c, tool_calls |-> <<>>,
                    tool_call_id |-> None, name |-> None]
AIMessage(c, tcs) == [type |-> "ai", content |-> c, tool_calls |-> tcs,
                      tool_call_id |-> None, name |-> None]
ToolMessage(c, id, n) == [type |-> "tool", content |-> c, tool_calls |-> <<>>,
                          tool_call_id |-> id, name |-> n]
SystemMessage == [type |-> "system", content |-> <<"SYSTEM_PROMPT">>,
                  tool_calls |-> <<>>, tool_call_id |-> None, name |-> None]

\* langchain_message with the conversion of the persisted tool calls left
\* out: every assistant message becomes a plain content turn.
langchain_message_without_calls(msg) ==
    LET raw == msg.raw_message
    IN  IF msg.role = "user"
        THEN <<TRUE, <<HumanMessage(Get(raw.content, <<>>))>>>>
        ELSE IF msg.role = "assistant"
        THEN <<TRUE, <<AIMessage(OrEmpty(GetOrNone(raw.content)), <<>>)>>>>
        ELSE IF msg.role = "tool" THEN
            <<TRUE, <<ToolMessage(Get(raw.content, <<>>),
                                  Get(raw.tool_call_id, <<>>),
                                  Get(raw.name, <<"unknown">>))>>>>
        ELSE <<TRUE, <<>>>>

\* The body of the loop of load_conversation_history: the turns one persisted
\* message becomes, <<TRUE, turns>>, or <<FALSE, <<>>>> when the conversion
\* raises.  A role the chain of tests does not name adds no turn.
langchain_message(msg) ==
    LET raw == msg.raw_message
        tcs == langchain_tool_calls(raw.tool_calls)
    IN  IF msg.role = "user"
        THEN <<TRUE, <<HumanMessage(Get(raw.content, <<>>))>>>>
        ELSE IF msg.role = "assistant" THEN
            IF raw.tool_calls # <<>>
            THEN IF tcs[1]
                 THEN <<TRUE, <<AIMessage(OrEmpty(GetOrNone(raw.content)), tcs[2])>>>>
                 ELSE <<FALSE, <<>>>>
            ELSE <<TRUE, <<AIMessage(Get(raw.content, <<>>), <<>>)>>>>
        ELSE IF msg.role = "tool" THEN
            <<TRUE, <<ToolMessage(Get(raw.content, <<>>),
                                  Get(raw.tool_call_id, <<>>),
                                  Get(raw.name, <<"unknown">>))>>>>
        ELSE <<TRUE, <<>>>>

\* load_conversation_history that puts each turn in front of the ones built
\* before it.
RECURSIVE load_conversation_history_newest_first(_)
load_conversation_history_newest_first(messages) ==
    IF messages = <<>> THEN <<TRUE, <<>>>>
    ELSE LET turn == langchain_message(messages[1])
             rest == load_conversation_history_newest_first(Tail(messages))
         IN  IF turn[1] /\ rest[1] THEN <<TRUE, rest[2] \o turn[2]>>
             ELSE <<FALSE, <<>>>>

\* load_conversation_history over the fetched messages, in their order.
RECURSIVE load_conversation_history(_)
load_conversation_history(messages) ==
    IF messages = <<>> THEN <<TRUE, <<>>>>
    ELSE LET turn == langchain_message(messages[1])
             rest == load_conversation_history(Tail(messages))
         IN  IF turn[1] /\ rest[1] THEN <<TRUE, turn[2] \o rest[2]>>
             ELSE <<FALSE, <<>>>>

\* --------------------------------------------------------------------- state
VARIABLES
    log,                        \* backend store: conversation -> persisted messages
    pc,                         \* invocation -> where its coroutine is suspended
    conv,                       \* invocation -> conversation_id of the request
    user_message,               \* invocation -> request.message
    history,                    \* invocation -> dialogue state built by chat
    current_tool_calls,         \* invocation -> accumulator of chat
    tool_call_assistant_saved,  \* invocation -> accumulator of chat
    final_response,             \* invocation -> accumulator of chat
    in_final_response,          \* invocation -> accumulator of chat
    out,                        \* invocation -> events written to the response
    running,                    \* invocation -> tool name -> runs the runtime has open
    invoked_with,               \* invocation -> dialogue state given to the runtime
    fault,                      \* invocation -> what raised, "none" if nothing did
    budget,                     \* runtime events still to be handed over
    nextId,                     \* source of fresh uuid4 tokens
    use_pinecone,               \* settings.use_pinecone
    backend,                    \* the knowledge-base service: reachable, entries held
    tool_run,                   \* the tool capability called last and its arguments
    requests,                   \* gateway requests that tool run sent to the backend
    tool_result                 \* how that tool run ended: text returned or exception

vars == <<log, pc, conv, user_message, history, current_tool_calls,
          tool_call_assistant_saved, final_response, in_final_response,
          out, running, invoked_with, fault, budget, nextId,
          use_pinecone, backend, tool_run, requests, tool_result>>

\* The variables of the chat orchestrator and those of the tool catalog.
chatvars == <<log, pc, conv, user_message, history, current_tool_calls,
              tool_call_assistant_saved, final_response, in_final_response,
              out, running, invoked_with, fault, budget, nextId>>

toolvars == <<use_pinecone, backend, tool_run, requests, tool_result>>

locals == <<current_tool_calls, tool_call_assistant_saved, final_response,
            in_final_response>>

\* ------------------------------------------------------------ backend gateway
\* The payload dicts chat builds; a key the dict does not hold is Absent.
RawMessage(role, content, tool_calls, tool_call_id, name) ==
    [role |-> role, content |-> content, tool_calls |-> tool_calls,
     tool_call_id |-> tool_call_id, name |-> name]

\* save_message with the POST sent a second time: the record is appended twice.
save_message_twice(i, conversation_id, role, content, tool_call_id, raw_message) ==
    LET record == [conversation_id |-> conversation_id,
                   role |-> role,
                   content |-> content,
                   tool_call_id |-> tool_call_id,
                   raw_message |-> raw_message,
                   inv |-> i]
    IN  [log EXCEPT ![conversation_id] = Append(Append(@, record), record)]

\* save_message with the conversation id kept on the shared agent object:
\* the record goes to the conversation of the request that arrived last.
save_message_shared_conversation(i, conversation_id, role, content, tool_call_id, raw_message) ==
    LET arrived == {j \in Invs : pc[j] \notin {"idle", "absent"}}
        latest == CHOOSE j \in arrived : \A k \in arrived : k <= j
    IN  [log EXCEPT ![conv[latest]] =
            Append(@, [conversation_id |-> conv[latest],
                       role |-> role,
                       content |-> content,
                       tool_call_id |-> tool_call_id,
                       raw_message |-> raw_message,
                       inv |-> i])]

\* save_message into a store that keeps the newest record first.
save_message_newest_first(i, conversation_id, role, content, tool_call_id, raw_message) ==
    [log EXCEPT ![conversation_id] =
        <<[conversation_id |-> conversation_id,
           role |-> role,
           content |-> content,
           tool_call_id |-> tool_call_id,
           raw_message |-> raw_message,
           inv |-> i]>> \o @]

\* A successful POST /tools/save-message: the backend appends the record to
\* the conversation.  `inv` records the invocation that issued the call.
\* A call that fails (raise_for_status on a non-success response) appends
\* nothing and raises; the actions choose between the two outcomes.
save_message(i, conversation_id, role, content, tool_call_id, raw_message) ==
    [log EXCEPT ![conversation_id] =
        Append(@, [conversation_id |-> conversation_id,
                   role |-> role,
                   content |-> content,
                   tool_call_id |-> tool_call_id,
                   raw_message |-> raw_message,
                   inv |-> i])]

\* ----------------------------------------------------------- transport layer
ErrorEvent(kind) == [type |-> "error", data |-> [message |-> <<kind>>]]

\* Raise without the except block of generate: the response just ends.
RaiseSilently(i, kind) ==
    /\ pc' = [pc EXCEPT ![i] = "closed"]
    /\ fault' = [fault EXCEPT ![i] = kind]
    /\ UNCHANGED out

\* Raise with a generate that does not return after the error event: the
\* response stays open.
RaiseLeavingOpen(i, kind) ==
    /\ out' = [out EXCEPT ![i] = Append(@, ErrorEvent(kind))]
    /\ pc' = [pc EXCEPT ![i] = "open"]
    /\ fault' = [fault EXCEPT ![i] = kind]

\* generate(): an exception leaving chat becomes one error event, after which
\* the generator returns and the response is closed.
Raise(i, kind) ==
    /\ out' = [out EXCEPT ![i] = Append(@, ErrorEvent(kind))]
    /\ pc' = [pc EXCEPT ![i] = "closed"]
    /\ fault' = [fault EXCEPT ![i] = kind]

\* generate(): an event chat yields is written to the response.
Yield(i, event) == out' = [out EXCEPT ![i] = Append(@, event)]

\* ------------------------------------------------------------ stored messages
\* Messages the store holds for conversation 1 before the request arrives,
\* as get_messages returns them; `inv` 0 stands for whoever wrote them.
Stored(role, content, tool_call_id, raw_message) ==
    [conversation_id |-> 1, role |-> role, content |-> content,
     tool_call_id |-> tool_call_id, raw_message |-> raw_message, inv |-> 0]

StoredUser == Stored("user", <<"h", "i">>, None,
                     RawMessage("user", <<"h", "i">>, <<>>, Absent, Absent))
StoredAnswer == Stored("assistant", <<"a">>, None,
                       RawMessage("assistant", <<"a">>, <<>>, Absent, Absent))
StoredCalls(content, calls) ==
    Stored("assistant", content, None,
           RawMessage("assistant", content, calls, Absent, Absent))
StoredToolResult(id) ==
    Stored("tool", <<"o", "k">>, id,
           RawMessage("tool", <<"o", "k">>, <<>>, id, search_knowledge_base))

\* A tool call as on_tool_start persists it, and one whose arguments text was
\* cut short, which json.loads rejects.
GoodCall(id) ==
    [id |-> id, type |-> "function",
     function |-> [name |-> search_knowledge_base,
                   arguments |-> json_dumps(<< <<"query", "docker">> >>)]]
CutCall(id) ==
    [id |-> id, type |-> "function",
     function |-> [name |-> search_knowledge_base,
                   arguments |-> <<"{", "query", ":">>]]

StoredLogs ==
    { <<StoredUser, StoredCalls(None, <<GoodCall(<<"call_a">>)>>),
        StoredToolResult(<<"call_a">>), StoredAnswer>>,
      <<StoredUser, StoredCalls(None, <<CutCall(<<"call_a">>)>>)>>,
      <<StoredUser, StoredCalls(<<"a">>, <<GoodCall(<<"call_a">>),
                                          CutCall(<<"call_b">>)>>),
        StoredToolResult(<<"call_a">>), StoredAnswer>> }

\* A message with the role the prompt has in the OpenAI format; the
\* reconstructor's chain of tests does not name it.
StoredSystem == Stored("system", <<"p">>, None,
                       RawMessage("system", <<"p">>, <<>>, Absent, Absent))

\* Stored conversations two requests replay: a complete turn, and one with a
\* system message and with records the store holds twice.
ReplayLogs ==
    { <<StoredUser, StoredCalls(None, <<GoodCall(<<"call_a">>)>>),
        StoredToolResult(<<"call_a">>), StoredAnswer>>,
      <<StoredUser, StoredSystem, StoredUser,
        StoredCalls(None, <<GoodCall(<<"call_a">>)>>),
        StoredToolResult(<<"call_a">>), StoredToolResult(<<"call_a">>),
        StoredAnswer, StoredAnswer>> }

\* -------------------------------------------------------------- tool catalog
\* The result of a tool run: the text it returned or the exception it raised.
NoResult == [kind |-> "none", value |-> <<>>]
Return(text) == [kind |-> "return", value |-> text]
Raised(exc) == [kind |-> "raise", value |-> <<exc>>]

NoRun == [tool |-> <<>>, query |-> <<>>, limit |-> 0, qa_ids |-> <<>>]

min(a, b) == IF a <= b THEN a ELSE b

\* SearchQARequest(query=query, limit=limit): <<TRUE, request>>, or
\* <<FALSE, <<>>>> when the field constraints reject the values
\* (pydantic ValidationError).
SearchQARequest(query, limit) ==
    IF /\ Len(query) >= MinQueryLen /\ Len(query) <= MaxQueryLen
       /\ limit >= MinRequestLimit /\ limit <= MaxRequestLimit
    THEN <<TRUE, [endpoint |-> "/tools/search-qa", query |-> query,
                  limit |-> limit, ids |-> <<>>]>>
    ELSE <<FALSE, <<>>>>

\* GetQAByIDsRequest(ids=ids)
GetQAByIDsRequest(ids) ==
    IF Len(ids) >= MinIds /\ Len(ids) <= MaxIds
    THEN <<TRUE, [endpoint |-> "/tools/get-qa-by-ids", query |-> <<>>,
                  limit |-> 0, ids |-> ids]>>
    ELSE <<FALSE, <<>>>>

\* What a gateway call did: the requests it sent, whether it returned, the
\* exception it raised otherwise, and the number of Q&A pairs in the reply.
\* `matching` is the number of entries of the knowledge base the backend
\* finds for the request; it returns at most `limit` of them.
Response(sent, count) == [sent |-> sent, ok |-> TRUE, exc |-> "", count |-> count]
Failure(sent, exc) == [sent |-> sent, ok |-> FALSE, exc |-> exc, count |-> 0]

\* BackendClient.search_qa
search_qa(query, limit, matching) ==
    LET request == SearchQARequest(query, limit)
    IN  IF ~request[1] THEN Failure(<<>>, "ValidationError")
        ELSE IF ~backend.reachable THEN Failure(<<request[2]>>, "HTTPError")
        ELSE Response(<<request[2]>>, min(matching, limit))

\* BackendClient.get_qa_by_ids
client_get_qa_by_ids(ids, matching) ==
    LET request == GetQAByIDsRequest(ids)
    IN  IF ~request[1] THEN Failure(<<>>, "ValidationError")
        ELSE IF ~backend.reachable THEN Failure(<<request[2]>>, "HTTPError")
        ELSE Response(<<request[2]>>, min(matching, Len(ids)))

\* BackendClient.semantic_search_qa
semantic_search_qa(query, top_k, matching) ==
    IF ~use_pinecone THEN search_qa(query, top_k, matching)
    ELSE Failure(<<>>, "NotImplementedError")

\* "\n\n".join(results): one token per listed Q&A pair.
Results(label, count) == [k \in 1..count |-> label]

\* What a tool run did: the gateway requests sent and how the run ended.
Ran(sent, result) == [requests |-> sent, result |-> result]

\* The tool function search_knowledge_base(query, limit).
search_knowledge_base_run(query, limit, matching) ==
    LET response == search_qa(query, min(limit, SearchCap), matching)
    IN  Ran(response.sent,
            IF ~response.ok
            THEN Return(<<"Error searching knowledge base: ", response.exc>>)
            ELSE IF response.count = 0
            THEN Return(<<"No relevant information found in the knowledge base.">>)
            ELSE Return(Results("Result", response.count)))

\* "await search_knowledge_base(query, top_k)" in the except block of
\* semantic_search_knowledge_base: the name is bound to the tool object the
\* decorator returned, not to the coroutine function.  Calling it with two
\* positional arguments raises in every release of the tool library (the
\* object is not callable, or its call takes the second argument for the
\* callbacks and refuses a synchronous run), and the exception leaves the
\* except block it was raised in.
ToolObjectCallErrors == {"TypeError", "AttributeError", "NotImplementedError"}
fallback_to_text_search(query, top_k, call_error) == Ran(<<>>, Raised(call_error))

\* The tool function semantic_search_knowledge_base(query, top_k).
semantic_search_knowledge_base_run(query, top_k, matching, call_error) ==
    LET response == semantic_search_qa(query, top_k, matching)
    IN  IF ~response.ok /\ response.exc = "NotImplementedError"
        THEN fallback_to_text_search(query, top_k, call_error)
        ELSE Ran(response.sent,
                 IF ~response.ok
                 THEN Return(<<"Error in semantic search: ", response.exc>>)
                 ELSE IF response.count = 0
                 THEN Return(<<"No semantically similar information found.">>)
                 ELSE Return(Results("Result", response.count)))

\* The tool function get_qa_by_ids(qa_ids).  UUID(qa_id) raises ValueError
\* on a malformed id, and the request's ValidationError is a ValueError too.
get_qa_by_ids_run(qa_ids, matching) ==
    IF \E k \in 1..Len(qa_ids) : qa_ids[k] \notin UUIDs
    THEN Ran(<<>>, Return(<<"Invalid UUID format: ", "ValueError">>))
    ELSE LET response == client_get_qa_by_ids(qa_ids, matching)
         IN  Ran(response.sent,
                 IF ~response.ok /\ response.exc = "ValidationError"
                 THEN Return(<<"Invalid UUID format: ", response.exc>>)
                 ELSE IF ~response.ok
                 THEN Return(<<"Error retrieving Q&A pairs: ", response.exc>>)
                 ELSE IF response.count = 0
                 THEN Return(<<"No Q&A pairs found for the provided IDs.">>)
                 ELSE Return(Results("ID", response.count)))

\* The tool function list_knowledge_base_topics().
list_knowledge_base_topics_run(matching) ==
    LET response == search_qa(<<>>, TopicsLimit, matching)
    IN  Ran(response.sent,
            IF ~response.ok
            THEN Return(<<"Error listing topics: ", response.exc>>)
            ELSE IF response.count = 0
            THEN Return(<<"The knowledge base is currently empty.">>)
            ELSE Return(<<"Knowledge Base Contents">>
                        \o Results("topic", response.count)))

\* ---------------------------------------------------------------------- Init
\* No request has arrived; conversation 1 holds the messages `stored` and
\* the other conversations are empty.  The requests of `arriving` are still
\* to come; the others never do.
InitChat(arriving, events, stored) ==
    /\ log = [c \in Convs |-> IF c = 1 THEN stored ELSE <<>>]
    /\ pc = [i \in Invs |-> IF i \in arriving THEN "idle" ELSE "absent"]
    /\ conv = [i \in Invs |-> 1]
    /\ user_message = [i \in Invs |-> <<>>]
    /\ history = [i \in Invs |-> <<>>]
    /\ current_tool_calls = [i \in Invs |-> <<>>]
    /\ tool_call_assistant_saved = [i \in Invs |-> FALSE]
    /\ final_response = [i \in Invs |-> <<>>]
    /\ in_final_response = [i \in Invs |-> FALSE]
    /\ out = [i \in Invs |-> <<>>]
    /\ running = [i \in Invs |-> [n \in ToolNames |-> 0]]
    /\ invoked_with = [i \in Invs |-> <<>>]
    /\ fault = [i \in Invs |-> "none"]
    /\ budget = events
    /\ nextId = 1
    /\ use_pinecone = FALSE
    /\ backend = [reachable |-> TRUE, entries |-> 0]
    /\ tool_run = NoRun
    /\ requests = <<>>
    /\ tool_result = NoResult

\* Every conversation is empty.
InitWith(arriving, events) == InitChat(arriving, events, <<>>)

Init == InitWith(Invs, MaxEvents)

\* One request, with a longer event stream.
InitSolo == InitWith({1}, MaxSoloEvents)

\* One request on a conversation the store already holds messages for.
InitStored == \E stored \in StoredLogs : InitChat({1}, MaxSoloEvents, stored)

\* ------------------------------------------------------------------- actions
\* with_system_turn that tests only for an empty history.
with_system_turn_if_empty(h) == IF h = <<>> THEN <<SystemMessage>> \o h ELSE h

\* chat: the system turn is inserted at position 0 unless the history
\* already starts with one.
with_system_turn(h) ==
    IF h = <<>> \/ h[1].type # "system" THEN <<SystemMessage>> \o h ELSE h

\* POST /conversations/{id}/messages up to the end of chat's first await:
\* the history is fetched and rebuilt, and the system turn is put in front.
\* Requests are numbered in the order they arrive, and conversations in the
\* order they are first written to.
SendMessage(i, conversation_id, message) ==
    /\ pc[i] = "idle"
    /\ \A j \in Invs : j < i => pc[j] # "idle"
    /\ \A c \in Convs : c < conversation_id => \E j \in Invs : j < i /\ conv[j] = c
    /\ conv' = [conv EXCEPT ![i] = conversation_id]
    /\ user_message' = [user_message EXCEPT ![i] = message]
    /\ \E fetched \in BOOLEAN :
         LET loaded == load_conversation_history(log[conversation_id])
             h == loaded[2]
         IN  IF fetched /\ loaded[1]
             THEN /\ history' = [history EXCEPT ![i] = with_system_turn(h)]
                  /\ pc' = [pc EXCEPT ![i] = "save_user"]
                  /\ UNCHANGED <<out, fault>>
             ELSE /\ Raise(i, "load")
                  /\ UNCHANGED history
    /\ UNCHANGED <<log, locals, running, invoked_with, budget, nextId>>
    /\ UNCHANGED toolvars

\* chat from the user-message save to the call of astream_events.
SaveUserMessage(i) ==
    /\ pc[i] = "save_user"
    /\ \E saved \in BOOLEAN :
         IF saved
         THEN /\ log' = save_message(i, conv[i], "user", user_message[i], None,
                            RawMessage("user", user_message[i], <<>>, Absent, Absent))
              /\ history' = [history EXCEPT ![i] =
                                Append(@, HumanMessage(user_message[i]))]
              /\ invoked_with' = [invoked_with EXCEPT ![i] = history'[i]]
              /\ current_tool_calls' = [current_tool_calls EXCEPT ![i] = <<>>]
              /\ tool_call_assistant_saved' =
                    [tool_call_assistant_saved EXCEPT ![i] = FALSE]
              /\ final_response' = [final_response EXCEPT ![i] = <<>>]
              /\ in_final_response' = [in_final_response EXCEPT ![i] = FALSE]
              /\ pc' = [pc EXCEPT ![i] = "streaming"]
              /\ UNCHANGED <<out, fault>>
         ELSE /\ Raise(i, "save")
              /\ UNCHANGED <<log, history, invoked_with, locals>>
    /\ UNCHANGED <<conv, user_message, running, budget, nextId>>
    /\ UNCHANGED toolvars

\* ------------------------------------------------------- text of tool outputs
Upper == <<"A", "B", "C", "D", "E", "F", "G", "H", "I", "J", "K", "L", "M",
           "N", "O", "P", "Q", "R", "S", "T", "U", "V", "W", "X", "Y", "Z">>
LowerLetters == <<"a", "b", "c", "d", "e", "f", "g", "h", "i", "j", "k", "l", "m",
                  "n", "o", "p", "q", "r", "s", "t", "u", "v", "w", "x", "y", "z">>

\* str.lower()
lower(s) ==
    [k \in 1..Len(s) |->
        IF \E u \in 1..26 : Upper[u] = s[k]
        THEN LowerLetters[CHOOSE u \in 1..26 : Upper[u] = s[k]]
        ELSE s[k]]

\* phrase in text
Contains(text, phrase) ==
    \E k \in 0..(Len(text) - Len(phrase)) :
        SubSeq(text, k + 1, k + Len(phrase)) = phrase

FailurePhrases ==
    { <<"n", "o", " ", "r", "e", "l", "e", "v", "a", "n", "t">>,
      <<"n", "o", "t", " ", "f", "o", "u", "n", "d">>,
      <<"e", "r", "r", "o", "r">> }

\* is_success without the lower-casing of the output.
is_success_case_sensitive(tool_output) ==
    ~ \E phrase \in FailurePhrases : Contains(tool_output, phrase)

\* not any(phrase in str(tool_output).lower() for phrase in [...])
is_success(tool_output) ==
    ~ \E phrase \in FailurePhrases : Contains(lower(tool_output), phrase)

PreviewLen == 300
TruncationMarker == <<".", ".", ".", " ", "(", "t", "r", "u", "n", "c", "a",
                      "t", "e", "d", ")">>

\* output_preview that adds the marker from 300 characters on.
output_preview_from_limit(tool_output) ==
    LET head == SubSeq(tool_output, 1,
                       IF Len(tool_output) < PreviewLen THEN Len(tool_output)
                       ELSE PreviewLen)
    IN  IF Len(tool_output) >= PreviewLen THEN head \o TruncationMarker ELSE head

\* str(tool_output)[:300], and "... (truncated)" after it when
\* len(str(tool_output)) > 300.
output_preview(tool_output) ==
    LET head == SubSeq(tool_output, 1,
                       IF Len(tool_output) < PreviewLen THEN Len(tool_output)
                       ELSE PreviewLen)
    IN  IF Len(tool_output) > PreviewLen THEN head \o TruncationMarker ELSE head

\* Tool outputs one character shorter than the preview keeps, exactly as
\* long, and one and two characters longer; the characters differ by
\* position.
Digits == <<"0", "1", "2", "3", "4", "5", "6", "7", "8", "9">>
LongOutput(n) == [k \in 1..n |-> Digits[(k % 10) + 1]]
LongOutputs == {LongOutput(PreviewLen - 1), LongOutput(PreviewLen),
                LongOutput(PreviewLen + 1), LongOutput(PreviewLen + 2)}

\* Model deltas that differ in text and in length, and the empty delta; tool
\* arguments with no, one and two keys.
VariedChunks == {<<>>, <<"a">>, <<"b", "c">>}
VariedInputs == {<<>>, << <<"query", "docker">> >>,
                 << <<"query", "docker">>, <<"limit", "3">> >>}

\* Tool outputs around the phrases of the status heuristic: the text of an
\* empty search, a phrase in capitals, a phrase inside a word, a phrase broken
\* by a second space, a text with no phrase, and the empty text.
PhraseOutputs ==
    { <<>>,
      <<"N", "o", " ", "r", "e", "l", "e", "v", "a", "n", "t", " ",
        "i", "n", "f", "o", "r", "m", "a", "t", "i", "o", "n", " ",
        "f", "o", "u", "n", "d", ".">>,
      <<"N", "O", "T", " ", "F", "O", "U", "N", "D">>,
      <<"T", "e", "r", "r", "o", "r">>,
      <<"n", "o", "t", " ", " ", "f", "o", "u", "n", "d">>,
      <<"f", "i", "n", "e">> }

\* ------------------------------------------------------- stream orchestrator
\* f"call_{str(uuid.uuid4())[:8]}": a random token, taken to differ from
\* every token drawn before it.
new_tool_call_id == <<"call_" \o ToString(nextId)>>

\* tool_call with the capability name written where the identifier belongs.
tool_call_named_id(tool_call_id, tool_name, tool_input) ==
    [id |-> tool_name,
     type |-> "function",
     function |-> [name |-> tool_name, arguments |-> json_dumps(tool_input)]]

\* The tool call in OpenAI format.
tool_call(tool_call_id, tool_name, tool_input) ==
    [id |-> tool_call_id,
     type |-> "function",
     function |-> [name |-> tool_name, arguments |-> json_dumps(tool_input)]]

\* The loop of on_tool_end: <<tc>> for the first entry tc of the accumulator
\* with the completed tool's name, <<>> when the loop leaves None.
RECURSIVE matching_tool_call(_, _)
matching_tool_call(calls, tool_name) ==
    IF calls = <<>> THEN <<>>
    ELSE IF calls[1].function.name = tool_name THEN <<calls[1]>>
    ELSE matching_tool_call(Tail(calls), tool_name)

ContentEvent(content) == [type |-> "content", data |-> content]

ToolCallStartEvent(tool_call_id, tool_name, tool_input) ==
    [type |-> "tool_call_start",
     data |-> [id |-> tool_call_id, name |-> tool_name, args |-> tool_input]]

ToolCallEndEvent(tool_call_id, tool_name, tool_output) ==
    [type |-> "tool_call_end",
     data |-> [id |-> tool_call_id,
               name |-> tool_name,
               status |-> IF is_success(tool_output) THEN "success" ELSE "error",
               output_preview |-> output_preview(tool_output)]]

\* The runtime hands chat one more event.
Pull == /\ budget > 0
        /\ budget' = budget - 1

\* accumulate that keeps only the fragment received last.
accumulate_last_only(response, content) == content

\* final_response += chunk.content
accumulate(response, content) == response \o content

\* on_chat_model_stream
OnChatModelStream(i, content) ==
    /\ pc[i] = "streaming"
    /\ Pull
    /\ IF Truthy(content)
       THEN /\ final_response' = [final_response EXCEPT ![i] =
                                    accumulate(@, content)]
            /\ in_final_response' = [in_final_response EXCEPT ![i] =
                  IF current_tool_calls[i] # <<>> /\ tool_call_assistant_saved[i]
                  THEN TRUE ELSE @]
            /\ Yield(i, ContentEvent(content))
       ELSE UNCHANGED <<final_response, in_final_response, out>>
    /\ UNCHANGED <<log, pc, conv, user_message, history, current_tool_calls,
                   tool_call_assistant_saved, running, invoked_with, fault, nextId>>
    /\ UNCHANGED toolvars

\* new_cycle without the reset: the group saved first stays the current one.
new_cycle_never(i) == FALSE

\* new_cycle that waits for model text after the saved group: tools started
\* back to back stay in one group.
new_cycle_after_text(i) == tool_call_assistant_saved[i] /\ in_final_response[i]

\* on_tool_start: "if tool_call_assistant_saved", the test that opens a new
\* ReAct cycle.
new_cycle(i) == tool_call_assistant_saved[i]

\* on_tool_start
OnToolStart(i, tool_name, tool_input) ==
    /\ pc[i] = "streaming"
    /\ Pull
    /\ running' = [running EXCEPT ![i][tool_name] = @ + 1]
    /\ nextId' = nextId + 1
    /\ LET tool_call_id == new_tool_call_id
           reset == new_cycle(i)
           calls == Append(IF reset THEN <<>> ELSE current_tool_calls[i],
                           tool_call(tool_call_id, tool_name, tool_input))
           was_saved == IF reset THEN FALSE ELSE tool_call_assistant_saved[i]
           assistant_with_tools ==
               RawMessage("assistant", None, calls, Absent, Absent)
       IN  /\ current_tool_calls' = [current_tool_calls EXCEPT ![i] = calls]
           /\ \E saved \in BOOLEAN :
                IF ~was_saved /\ calls # <<>> /\ ~saved
                THEN /\ tool_call_assistant_saved' =
                            [tool_call_assistant_saved EXCEPT ![i] = FALSE]
                     /\ Raise(i, "save")
                     /\ UNCHANGED log
                ELSE /\ log' = IF ~was_saved /\ calls # <<>>
                               THEN save_message(i, conv[i], "assistant", None,
                                                 None, assistant_with_tools)
                               ELSE log
                     /\ tool_call_assistant_saved' =
                            [tool_call_assistant_saved EXCEPT ![i] = TRUE]
                     /\ Yield(i, ToolCallStartEvent(tool_call_id, tool_name,
                                                    tool_input))
                     /\ UNCHANGED <<pc, fault>>
    /\ UNCHANGED <<conv, user_message, history, final_response,
                   in_final_response, invoked_with>>
    /\ UNCHANGED toolvars

\* on_tool_end; the runtime completes a tool run it has open.
OnToolEnd(i, tool_name, tool_output) ==
    /\ pc[i] = "streaming"
    /\ running[i][tool_name] > 0
    /\ Pull
    /\ running' = [running EXCEPT ![i][tool_name] = @ - 1]
    /\ LET matching == matching_tool_call(current_tool_calls[i], tool_name)
           id == IF matching # <<>> THEN matching[1].id ELSE None
           tool_result_msg == RawMessage("tool", tool_output, <<>>, id, tool_name)
       IN  \E saved \in BOOLEAN :
             IF matching # <<>> /\ ~saved
             THEN /\ Raise(i, "save")
                  /\ UNCHANGED log
             ELSE /\ log' = IF matching # <<>>
                            THEN save_message(i, conv[i], "tool", tool_output, id,
                                              tool_result_msg)
                            ELSE log
                  /\ Yield(i, ToolCallEndEvent(id, tool_name, tool_output))
                  /\ UNCHANGED <<pc, fault>>
    /\ UNCHANGED <<conv, user_message, history, locals, invoked_with, nextId>>
    /\ UNCHANGED toolvars

\* The event stream is exhausted: the final assistant save and the return of
\* chat and of generate.
StreamEnd(i) ==
    /\ pc[i] = "streaming"
    /\ \A n \in ToolNames : running[i][n] = 0
    /\ \E saved \in BOOLEAN :
         IF Truthy(final_response[i]) /\ ~saved
         THEN /\ Raise(i, "save")
              /\ UNCHANGED log
         ELSE /\ log' = IF Truthy(final_response[i])
                        THEN save_message(i, conv[i], "assistant",
                                 final_response[i], None,
                                 RawMessage("assistant", final_response[i], <<>>,
                                            Absent, Absent))
                        ELSE log
              /\ pc' = [pc EXCEPT ![i] = "closed"]
              /\ UNCHANGED <<out, fault>>
    /\ UNCHANGED <<conv, user_message, history, locals, running, invoked_with,
                   budget, nextId>>
    /\ UNCHANGED toolvars

\* RuntimeRaises with the final save in a finally block: the text accumulated
\* so far is persisted before the exception leaves chat.
RuntimeRaisesSavingPartial(i) ==
    /\ pc[i] = "streaming"
    /\ Raise(i, "runtime")
    /\ log' = IF Truthy(final_response[i])
              THEN save_message(i, conv[i], "assistant", final_response[i], None,
                                RawMessage("assistant", final_response[i], <<>>,
                                           Absent, Absent))
              ELSE log
    /\ UNCHANGED <<conv, user_message, history, locals, running,
                   invoked_with, budget, nextId>>
    /\ UNCHANGED toolvars

\* astream_events raises instead of handing over an event.
RuntimeRaises(i) ==
    /\ pc[i] = "streaming"
    /\ Raise(i, "runtime")
    /\ UNCHANGED <<log, conv, user_message, history, locals, running,
                   invoked_with, budget, nextId>>
    /\ UNCHANGED toolvars

\* Disconnect with the final save in a finally block of chat: closing the
\* generator persists the text accumulated so far.
DisconnectSavingPartial(i) ==
    /\ pc[i] = "streaming"
    /\ pc' = [pc EXCEPT ![i] = "cancelled"]
    /\ log' = IF Truthy(final_response[i])
              THEN save_message(i, conv[i], "assistant", final_response[i], None,
                                RawMessage("assistant", final_response[i], <<>>,
                                           Absent, Absent))
              ELSE log
    /\ UNCHANGED <<conv, user_message, history, locals, out, running,
                   invoked_with, fault, budget, nextId>>
    /\ UNCHANGED toolvars

\* The caller goes away while the response is streaming: the generator is
\* closed where it is suspended and runs no further.
Disconnect(i) ==
    /\ pc[i] = "streaming"
    /\ pc' = [pc EXCEPT ![i] = "cancelled"]
    /\ UNCHANGED <<log, conv, user_message, history, locals, out, running,
                   invoked_with, fault, budget, nextId>>
    /\ UNCHANGED toolvars

Next ==
    \/ \E i \in Invs, c \in Convs, m \in UserMessages : SendMessage(i, c, m)
    \/ \E i \in Invs : SaveUserMessage(i)
    \/ \E i \in Invs, content \in Chunks : OnChatModelStream(i, content)
    \/ \E i \in Invs, n \in ToolNames, a \in ToolInputs : OnToolStart(i, n, a)
    \/ \E i \in Invs, n \in ToolNames, o \in ToolOutputs : OnToolEnd(i, n, o)
    \/ \E i \in Invs : StreamEnd(i)
    \/ \E i \in Invs : RuntimeRaises(i)
    \/ \E i \in Invs : Disconnect(i)

Spec == Init /\ [][Next]_vars

SpecSolo == InitSolo /\ [][Next]_vars

SpecStored == InitStored /\ [][Next]_vars

\* What the server and the runtime do for invocation i; the caller's
\* disconnect is not among them.
Step(i) ==
    \/ \E c \in Convs, m \in UserMessages : SendMessage(i, c, m)
    \/ SaveUserMessage(i)
    \/ \E content \in Chunks : OnChatModelStream(i, content)
    \/ \E n \in ToolNames, a \in ToolInputs : OnToolStart(i, n, a)
    \/ \E n \in ToolNames, o \in ToolOutputs : OnToolEnd(i, n, o)
    \/ StreamEnd(i)
    \/ RuntimeRaises(i)

\* The event loop resumes a coroutine whose await has completed, every
\* gateway call returns or fails (the client's timeout), and the runtime's
\* stream hands over an event, ends or raises: an invocation that can take a
\* step eventually takes one.
Fairness == \A i \in Invs : WF_vars(Step(i))

SpecLive == InitSolo /\ [][Next]_vars /\ Fairness

\* Two requests on a conversation the store already holds messages for.
InitReplay == \E stored \in ReplayLogs : InitChat(Invs, MaxReplayEvents, stored)

SpecReplay == InitReplay /\ [][Next]_vars

\* One request whose tools return text around the length the preview keeps.
InitLong == InitWith({1}, MaxLongEvents)

NextLong ==
    \/ \E i \in Invs, c \in Convs, m \in UserMessages : SendMessage(i, c, m)
    \/ \E i \in Invs : SaveUserMessage(i)
    \/ \E i \in Invs, content \in Chunks : OnChatModelStream(i, content)
    \/ \E i \in Invs, n \in ToolNames, a \in ToolInputs : OnToolStart(i, n, a)
    \/ \E i \in Invs, n \in ToolNames, o \in LongOutputs : OnToolEnd(i, n, o)
    \/ \E i \in Invs : StreamEnd(i)
    \/ \E i \in Invs : RuntimeRaises(i)
    \/ \E i \in Invs : Disconnect(i)

SpecLong == InitLong /\ [][NextLong]_vars

\* One request whose tools return text around the status heuristic's phrases.
InitPhrases == InitWith({1}, MaxPhraseEvents)

NextPhrases ==
    \/ \E i \in Invs, c \in Convs, m \in UserMessages : SendMessage(i, c, m)
    \/ \E i \in Invs : SaveUserMessage(i)
    \/ \E i \in Invs, content \in Chunks : OnChatModelStream(i, content)
    \/ \E i \in Invs, n \in ToolNames, a \in ToolInputs : OnToolStart(i, n, a)
    \/ \E i \in Invs, n \in ToolNames, o \in PhraseOutputs : OnToolEnd(i, n, o)
    \/ \E i \in Invs : StreamEnd(i)
    \/ \E i \in Invs : RuntimeRaises(i)
    \/ \E i \in Invs : Disconnect(i)

SpecPhrases == InitPhrases /\ [][NextPhrases]_vars

\* One request whose model streams deltas that differ from one another and
\* calls tools with arguments that differ.
InitChunks == InitWith({1}, MaxChunkEvents)

NextChunks ==
    \/ \E i \in Invs, c \in Convs, m \in UserMessages : SendMessage(i, c, m)
    \/ \E i \in Invs : SaveUserMessage(i)
    \/ \E i \in Invs, content \in VariedChunks : OnChatModelStream(i, content)
    \/ \E i \in Invs, n \in ToolNames, a \in VariedInputs : OnToolStart(i, n, a)
    \/ \E i \in Invs, n \in ToolNames, o \in ToolOutputs : OnToolEnd(i, n, o)
    \/ \E i \in Invs : StreamEnd(i)
    \/ \E i \in Invs : RuntimeRaises(i)
    \/ \E i \in Invs : Disconnect(i)

SpecChunks == InitChunks /\ [][NextChunks]_vars

\* ------------------------------------------------- tool catalog: the actions
\* No chat request; the setting and the state of the knowledge base are any.
InitTools ==
    /\ log = [c \in Convs |-> <<>>]
    /\ pc = [i \in Invs |-> "absent"]
    /\ conv = [i \in Invs |-> 1]
    /\ user_message = [i \in Invs |-> <<>>]
    /\ history = [i \in Invs |-> <<>>]
    /\ current_tool_calls = [i \in Invs |-> <<>>]
    /\ tool_call_assistant_saved = [i \in Invs |-> FALSE]
    /\ final_response = [i \in Invs |-> <<>>]
    /\ in_final_response = [i \in Invs |-> FALSE]
    /\ out = [i \in Invs |-> <<>>]
    /\ running = [i \in Invs |-> [n \in ToolNames |-> 0]]
    /\ invoked_with = [i \in Invs |-> <<>>]
    /\ fault = [i \in Invs |-> "none"]
    /\ budget = 0
    /\ nextId = 1
    /\ use_pinecone \in BOOLEAN
    /\ backend \in [reachable : BOOLEAN, entries : 0..MaxEntries]
    /\ tool_run = NoRun
    /\ requests = <<>>
    /\ tool_result = NoResult

\* The runtime calls a tool with the arguments the model chose; the action
\* is the whole run of the tool function, the gateway's reply included.
\* The tool functions keep nothing from one run to the next, so a behaviour
\* follows one run.
Ends(ran) ==
    /\ tool_run = NoRun
    /\ requests' = ran.requests
    /\ tool_result' = ran.result
    /\ UNCHANGED <<chatvars, use_pinecone, backend>>

SearchKnowledgeBase(query, limit) ==
    /\ tool_run' = [tool |-> search_knowledge_base, query |-> query,
                    limit |-> limit, qa_ids |-> <<>>]
    /\ \E matching \in 0..backend.entries :
          Ends(search_knowledge_base_run(query, limit, matching))

SemanticSearchKnowledgeBase(query, top_k) ==
    /\ tool_run' = [tool |-> semantic_search_knowledge_base, query |-> query,
                    limit |-> top_k, qa_ids |-> <<>>]
    /\ \E matching \in 0..backend.entries, call_error \in ToolObjectCallErrors :
          Ends(semantic_search_knowledge_base_run(query, top_k, matching,
                                                  call_error))

GetQAByIds(qa_ids) ==
    /\ tool_run' = [tool |-> get_qa_by_ids, query |-> <<>>, limit |-> 0,
                    qa_ids |-> qa_ids]
    /\ \E matching \in 0..backend.entries :
          Ends(get_qa_by_ids_run(qa_ids, matching))

ListKnowledgeBaseTopics ==
    /\ tool_run' = [tool |-> list_knowledge_base_topics, query |-> <<>>,
                    limit |-> 0, qa_ids |-> <<>>]
    /\ \E matching \in 0..backend.entries :
          Ends(list_knowledge_base_topics_run(matching))

NextTools ==
    \/ \E query \in Queries, limit \in Limits : SearchKnowledgeBase(query, limit)
    \/ \E query \in Queries, top_k \in Limits :
          SemanticSearchKnowledgeBase(query, top_k)
    \/ \E qa_ids \in QaIdLists : GetQAByIds(qa_ids)
    \/ ListKnowledgeBaseTopics

SpecTools == InitTools /\ [][NextTools]_vars

\* ----------------------------------------------------------------- notation
Range(seq) == {seq[k] : k \in 1..Len(seq)}

\* The positions of a conversation's log holding a record with this role that
\* invocation i persisted.
SavedBy(i, role) ==
    {k \in 1..Len(log[conv[i]]) :
        log[conv[i]][k].inv = i /\ log[conv[i]][k].role = role}

\* The persisted message is an assistant message whose payload holds a tool
\* call with this identifier.
CarriesCall(msg, id) ==
    /\ msg.role = "assistant"
    /\ \E tc \in Range(msg.raw_message.tool_calls) : tc.id = id

\* Some tool-role message with this identifier follows, in the log, an
\* assistant message carrying the call.
HasToolResult(messages, id) ==
    \E j \in 1..Len(messages), k \in 1..Len(messages) :
        /\ j < k
        /\ CarriesCall(messages[j], id)
        /\ messages[k].role = "tool"
        /\ messages[k].raw_message.tool_call_id = id

Reconstructed(c) == load_conversation_history(log[c])

\* -------------------------------------------------------------------- claims

\* C1: for every persisted log, the reconstructed dialogue state holds no
\* assistant turn with a tool call whose identifier has no tool-role message
\* later in the same log.
C1_OrphanDrop ==
    \A c \in Convs :
        Reconstructed(c)[1] =>
            \A t \in Range(Reconstructed(c)[2]) :
                t.type = "ai" =>
                    \A tc \in Range(t.tool_calls) : HasToolResult(log[c], tc.id)

\* C2: a persisted assistant message none of whose tool calls has a tool-role
\* message in the log yields no tool-call turn: no turn at all when its
\* content is null or empty, a plain content turn otherwise.
C2_UnmatchedCallsDropped ==
    \A c \in Convs : \A msg \in Range(log[c]) :
        ( /\ msg.role = "assistant"
          /\ msg.raw_message.tool_calls # <<>>
          /\ \A tc \in Range(msg.raw_message.tool_calls) :
                ~HasToolResult(log[c], tc.id) )
        => langchain_message(msg) =
              IF Truthy(GetOrNone(msg.raw_message.content))
              THEN <<TRUE, <<AIMessage(msg.raw_message.content, <<>>)>>>>
              ELSE <<TRUE, <<>>>>

\* C3: in every reconstructed dialogue state each tool-result turn stands
\* strictly after an assistant turn carrying a tool call with its identifier.
C3_ToolResultAfterCall ==
    \A c \in Convs :
        LET turns == Reconstructed(c)[2]
        IN  \A k \in 1..Len(turns) :
                turns[k].type = "tool" =>
                    \E j \in 1..(k - 1) :
                        /\ turns[j].type = "ai"
                        /\ \E tc \in Range(turns[j].tool_calls) :
                               tc.id = turns[k].tool_call_id

\* A log written by two interleaved turns is reconstructed with a tool-result
\* turn in it.
C3_Witness ==
    \E c \in Convs :
        /\ \E k \in 1..Len(log[c]) : log[c][k].inv = 1 /\ log[c][k].role = "tool"
        /\ \E j \in 1..Len(log[c]), k \in 1..Len(log[c]) :
               j < k /\ log[c][j].inv = 2 /\ log[c][k].inv = 1
        /\ Reconstructed(c)[1]
        /\ \E t \in Range(Reconstructed(c)[2]) : t.type = "tool"

\* C4: once the user message is persisted and the runtime has been invoked,
\* the log holds that user message exactly once, also after the runtime
\* fails at invocation or at a later event.
C4_UserMessageOnce ==
    \A i \in Invs :
        (pc[i] \in {"streaming", "cancelled"} \/ fault[i] = "runtime") =>
            /\ Cardinality(SavedBy(i, "user")) = 1
            /\ \A k \in SavedBy(i, "user") :
                   /\ log[conv[i]][k].content = user_message[i]
                   /\ log[conv[i]][k].raw_message.content = user_message[i]

\* The runtime raised after at least one event of the invocation was emitted.
C4_Witness ==
    \E i \in Invs : fault[i] = "runtime" /\ Len(out[i]) > 1

\* C5: for every tool-call-started event emitted, an assistant message of the
\* invocation whose payload holds that call (identifier, capability name,
\* serialized arguments) is in the log, and every tool-role message for the
\* call stands after such a message.
C5_AssistantSavedBeforeStart ==
    \A i \in Invs : \A e \in Range(out[i]) :
        e.type = "tool_call_start" =>
            LET messages == log[conv[i]]
                Holds(k) ==
                    /\ messages[k].inv = i
                    /\ messages[k].role = "assistant"
                    /\ \E tc \in Range(messages[k].raw_message.tool_calls) :
                          /\ tc.id = e.data.id
                          /\ tc.function.name = e.data.name
                          /\ tc.function.arguments = json_dumps(e.data.args)
            IN  /\ \E k \in 1..Len(messages) : Holds(k)
                /\ \A k \in 1..Len(messages) :
                      (messages[k].role = "tool"
                       /\ messages[k].tool_call_id = e.data.id)
                      => \E j \in 1..(k - 1) : Holds(j)

\* A second tool of one invocation was started and the first has its result.
C5_Witness ==
    \E i \in Invs :
        /\ Cardinality({k \in 1..Len(out[i]) : out[i][k].type = "tool_call_start"}) = 2
        /\ SavedBy(i, "tool") # {}

\* C6: for every tool-call-finished event emitted, a tool-role message of the
\* invocation with the output, the matched call identifier and the capability
\* name is in the log, whatever the order of starts and completions.
C6_ToolResultSavedBeforeFinish ==
    \A i \in Invs : \A e \in Range(out[i]) :
        e.type = "tool_call_end" =>
            \E k \in SavedBy(i, "tool") :
                LET raw == log[conv[i]][k].raw_message
                IN  /\ raw.tool_call_id = e.data.id
                    /\ raw.name = e.data.name
                    /\ output_preview(raw.content) = e.data.output_preview
                    /\ \E j \in 1..(k - 1) : CarriesCall(log[conv[i]][j], e.data.id)

\* C7: within one invocation no two persisted tool-role messages reference
\* the same tool-call identifier.
C7_OneResultPerCall ==
    \A i \in Invs : \A j \in SavedBy(i, "tool"), k \in SavedBy(i, "tool") :
        j # k => log[conv[i]][j].tool_call_id # log[conv[i]][k].tool_call_id

\* C8: every tool-role message of the log references a tool call held by the
\* payload of an assistant message earlier in the same conversation.
C8_ToolMessageReferencesCall ==
    \A c \in Convs : \A k \in 1..Len(log[c]) :
        log[c][k].role = "tool" =>
            \E j \in 1..(k - 1) : CarriesCall(log[c][j], log[c][k].tool_call_id)

\* An invocation was interrupted after it persisted a tool result.
C8_Witness ==
    \E i \in Invs :
        /\ pc[i] \in {"closed", "cancelled"}
        /\ (fault[i] # "none" \/ pc[i] = "cancelled")
        /\ SavedBy(i, "tool") # {}

\* The content-only assistant messages invocation i persisted.
FinalMessages(i) ==
    {k \in SavedBy(i, "assistant") : log[conv[i]][k].raw_message.tool_calls = <<>>}

\* C9: an invocation has persisted a final content-only assistant message
\* exactly when its event stream completed normally with a non-empty
\* final_response and no gateway call failed; never more than one, and none
\* once the stream raised or a save failed.
C9_FinalAssistantIffCompleted ==
    \A i \in Invs :
        /\ Cardinality(FinalMessages(i)) <= 1
        /\ (FinalMessages(i) # {}) <=>
              (pc[i] = "closed" /\ fault[i] = "none" /\ Truthy(final_response[i]))
        /\ \A k \in FinalMessages(i) :
              log[conv[i]][k].raw_message.content = final_response[i]

\* One invocation completed and persisted its answer, another raised after
\* content had been accumulated.
C9_Witness ==
    /\ \E i \in Invs : FinalMessages(i) # {}
    /\ \E i \in Invs : fault[i] = "runtime" /\ Truthy(final_response[i])

\* C10: an error event is the last event of its stream and closes it; a
\* stream whose invocation raised (history load, gateway save or runtime)
\* ends with exactly one error event, and a stream that closed without a
\* raise holds none.
C10_ErrorEventIsTerminal ==
    \A i \in Invs :
        /\ \A k \in 1..Len(out[i]) :
              out[i][k].type = "error" => (k = Len(out[i]) /\ pc[i] = "closed")
        /\ fault[i] # "none" =>
              /\ pc[i] = "closed"
              /\ out[i] # <<>>
              /\ out[i][Len(out[i])].type = "error"
        /\ (pc[i] = "closed" /\ fault[i] = "none") =>
              \A e \in Range(out[i]) : e.type # "error"

\* A stream that ended with an error event after tool events, and one that
\* ended cleanly after events.
C10_Witness ==
    /\ \E i \in Invs :
          /\ fault[i] = "save"
          /\ \E e \in Range(out[i]) : e.type = "tool_call_start"
    /\ \E i \in Invs : pc[i] = "closed" /\ fault[i] = "none" /\ out[i] # <<>>

\* The positions of invocation i's stream holding an event of this type.
EventsOf(i, type) == {k \in 1..Len(out[i]) : out[i][k].type = type}

\* C11: every tool-call-finished event carries the identifier of a
\* tool-call-started event emitted earlier in the same stream for the same
\* capability name, and no two finished events of a stream carry the same
\* identifier.
C11_FinishedMatchesStarted ==
    \A i \in Invs : \A k \in EventsOf(i, "tool_call_end") :
        /\ \E j \in EventsOf(i, "tool_call_start") :
              /\ j < k
              /\ out[i][j].data.id = out[i][k].data.id
              /\ out[i][j].data.name = out[i][k].data.name
        /\ \A m \in EventsOf(i, "tool_call_end") :
              m # k => out[i][m].data.id # out[i][k].data.id

\* C12: the dialogue state handed to the runtime is the system turn at
\* position 0, then the history reconstructed from the log as fetched (a
\* prefix of the log that ends before the invocation's user message), then
\* the new user turn last, and the user message is persisted by then; for a
\* conversation that was empty it has exactly two turns.
C12_RuntimeInput ==
    \A i \in Invs :
        invoked_with[i] # <<>> =>
            \E k \in SavedBy(i, "user") :
                /\ \E n \in 0..(k - 1) :
                      LET fetched == SubSeq(log[conv[i]], 1, n)
                          turns == load_conversation_history(fetched)
                      IN  /\ turns[1]
                          /\ invoked_with[i] =
                                <<[type |-> "system",
                                   content |-> <<"SYSTEM_PROMPT">>,
                                   tool_calls |-> <<>>,
                                   tool_call_id |-> None,
                                   name |-> None]>>
                                \o turns[2]
                                \o <<HumanMessage(user_message[i])>>
                /\ k = 1 => Len(invoked_with[i]) = 2

\* One runtime was invoked on an empty conversation and another on a
\* conversation whose history holds a tool-call turn.
C12_Witness ==
    /\ \E i \in Invs : Len(invoked_with[i]) = 2
    /\ \E i \in Invs :
          /\ Len(invoked_with[i]) > 3
          /\ \E t \in Range(invoked_with[i]) : t.tool_calls # <<>>

\* C13: the log is append-only: every step leaves each conversation's log
\* unchanged or appends one message to it, so the log before the step is a
\* prefix of the log after it, and no step writes to two conversations.
C13_LogAppendOnly ==
    [][ /\ \A c \in Convs :
             \/ log'[c] = log[c]
             \/ /\ Len(log'[c]) = Len(log[c]) + 1
                /\ SubSeq(log'[c], 1, Len(log[c])) = log[c]
        /\ Cardinality({c \in Convs : log'[c] # log[c]}) <= 1 ]_vars

\* A conversation holds messages of two invocations that were appended in
\* turns, one of them a tool result.
C13_Witness ==
    \E c \in Convs :
        /\ Len(log[c]) >= 4
        /\ \E j \in 1..Len(log[c]), k \in 1..Len(log[c]) :
              log[c][j].inv # log[c][k].inv /\ log[c][k].role = "tool"

\* The records invocation i persisted, in the order the log holds them.
RECURSIVE RecordsOf(_, _)
RecordsOf(messages, i) ==
    IF messages = <<>> THEN <<>>
    ELSE (IF messages[1].inv = i THEN <<messages[1]>> ELSE <<>>)
         \o RecordsOf(Tail(messages), i)

\* C14: once the caller has disconnected, the invocation makes no further
\* gateway call and emits nothing more: the step of the disconnect and every
\* later step leave the messages it persisted and its events as they were,
\* and its coroutine never resumes.
C14_NoSaveAfterDisconnect ==
    [][ \A i \in Invs :
          pc'[i] = "cancelled" =>
             /\ pc[i] \in {"streaming", "cancelled"}
             /\ \A c \in Convs : RecordsOf(log'[c], i) = RecordsOf(log[c], i)
             /\ out'[i] = out[i]
             /\ <<final_response'[i], current_tool_calls'[i]>> =
                   <<final_response[i], current_tool_calls[i]>> ]_vars

\* The caller left after content was accumulated and a tool call was
\* persisted, and the other request went on to persist messages.
C14_Witness ==
    \E i \in Invs, j \in Invs :
        /\ pc[i] = "cancelled"
        /\ Truthy(final_response[i])
        /\ SavedBy(i, "assistant") # {}
        /\ conv[j] = conv[i]
        /\ \E k \in SavedBy(j, "user") : \E m \in SavedBy(i, "assistant") : m < k

\* The request of invocation i has arrived.
Arrived(i) == pc[i] \notin {"idle", "absent"}

\* Everything invocation i reads or writes: its coroutine's position and
\* local variables, its response, and the log of its conversation.
View(i) == <<pc[i], user_message[i], history[i], current_tool_calls[i],
             tool_call_assistant_saved[i], final_response[i],
             in_final_response[i], out[i], running[i], invoked_with[i],
             fault[i], log[conv[i]]>>

\* C15: two invocations on different conversations do not affect each
\* other: no step changes what both of them see, a step of one leaves the
\* other's position, accumulators, events and conversation log as they were,
\* and each conversation holds only its own invocation's messages, stamped
\* with its own conversation id, so each runtime is invoked as on a
\* conversation used by that invocation alone.
C15_DifferentConversationsIndependent ==
    [][ \A i \in Invs, j \in Invs :
          (i # j /\ Arrived(i)' /\ Arrived(j)' /\ conv'[i] # conv'[j]) =>
             /\ View(i)' = View(i) \/ View(j)' = View(j)
             /\ \A m \in Range(log'[conv'[i]]) :
                   m.inv = i /\ m.conversation_id = conv'[i]
             /\ \A c \in Convs :
                   c # conv'[i] => RecordsOf(log'[c], i) = <<>>
             /\ invoked_with'[i] \in
                   {<<>>, <<SystemMessage, HumanMessage(user_message'[i])>>} ]_vars

\* Two invocations on different conversations have each persisted a tool
\* call, the second one's between two saves of the first.
C15_Witness ==
    \E i \in Invs, j \in Invs :
        /\ conv[i] # conv[j]
        /\ Arrived(i) /\ Arrived(j)
        /\ SavedBy(i, "assistant") # {} /\ SavedBy(j, "assistant") # {}
        /\ \E e \in Range(out[i]) : e.type = "tool_call_end"
        /\ out[i][1].type = "tool_call_start" /\ out[j][1].type = "tool_call_start"
        /\ out[i][1].data.id[1] = "call_1" /\ out[j][1].data.id[1] = "call_2"

\* C16: every run of one of the four tool capabilities ends by returning
\* text, never by raising, whatever the gateway call does, also when
\* semantic search is unavailable and the capability falls back to text
\* search.
C16_ToolsNeverRaise ==
    tool_run # NoRun => tool_result.kind = "return"

\* C17: whatever arguments the model supplies, a request sent for
\* search_knowledge_base asks for at most 10 results and a request sent for
\* semantic_search_knowledge_base asks for at most 20.
C17_RequestLimits ==
    \A r \in Range(requests) :
        /\ tool_run.tool = search_knowledge_base => r.limit <= 10
        /\ tool_run.tool = semantic_search_knowledge_base => r.limit <= 20

\* C18: when the knowledge base is reachable and holds at least one entry,
\* a run of list_knowledge_base_topics sends one request with an empty query
\* and limit 100 and returns the listing, not an error string.
C18_TopicsListed ==
    ( /\ tool_run.tool = list_knowledge_base_topics
      /\ backend.reachable
      /\ backend.entries >= 1 )
    => /\ Len(requests) = 1
       /\ requests[1].query = <<>>
       /\ requests[1].limit = 100
       /\ tool_result.kind = "return"
       /\ tool_result.value[1] = "Knowledge Base Contents"

\* The persisted message is an assistant message holding a tool call whose
\* arguments json.loads rejects.
Unparseable(msg) ==
    /\ msg.role = "assistant"
    /\ \E tc \in Range(msg.raw_message.tool_calls) :
          ~json_loads(tc.function.arguments)[1]

\* C19: when a persisted assistant message holds a tool call whose arguments
\* cannot be parsed, reconstruction fails as a whole and an invocation on that
\* conversation ends with the load error: it has no dialogue state, the
\* runtime was not invoked, it persisted nothing (the user message neither)
\* and the log is as the store held it.
C19_LoadFailsAsAWhole ==
    \A i \in Invs :
        (Arrived(i) /\ \E msg \in Range(log[conv[i]]) : Unparseable(msg)) =>
            /\ Reconstructed(conv[i]) = <<FALSE, <<>>>>
            /\ pc[i] = "closed"
            /\ fault[i] = "load"
            /\ out[i] = <<ErrorEvent("load")>>
            /\ history[i] = <<>>
            /\ invoked_with[i] = <<>>
            /\ \A c \in Convs : RecordsOf(log[c], i) = <<>>
            /\ log[conv[i]] \in StoredLogs

\* A request arrived on a conversation whose log holds a parseable call with
\* its result and, in the same assistant message, an unparseable call.
C19_Witness ==
    \E i \in Invs :
        /\ Arrived(i)
        /\ \E msg \in Range(log[conv[i]]) :
              /\ Unparseable(msg)
              /\ json_loads(msg.raw_message.tool_calls[1].function.arguments)[1]
        /\ \E msg \in Range(log[conv[i]]) : msg.role = "tool"

\* The tool-call-finished events of invocation i that were matched to a
\* call, and the tool results it persisted; a matched completion appends one
\* of each in the same step.
MatchedEnds(i) ==
    SelectSeq(out[i], LAMBDA e : e.type = "tool_call_end" /\ e.data.id # None)
ToolRecords(i) ==
    SelectSeq(log[conv[i]], LAMBDA msg : msg.inv = i /\ msg.role = "tool")

\* C20: the output preview of a tool-call-finished event is the tool output
\* unchanged when the output has at most 300 characters (so a 300-character
\* output has no marker), and its first 300 characters followed by the
\* truncation marker when it has more (so a 301-character output gives 300
\* characters plus the marker).
C20_OutputPreview ==
    \A i \in Invs :
        /\ Len(MatchedEnds(i)) = Len(ToolRecords(i))
        /\ \A k \in 1..Len(MatchedEnds(i)) :
              LET output == ToolRecords(i)[k].raw_message.content
                  preview == MatchedEnds(i)[k].data.output_preview
              IN  /\ Len(output) <= 300 => preview = output
                  /\ Len(output) > 300 =>
                        /\ Len(preview) = 300 + Len(TruncationMarker)
                        /\ SubSeq(preview, 1, 300) = SubSeq(output, 1, 300)
                        /\ SubSeq(preview, 301, Len(preview)) =
                              <<".", ".", ".", " ", "(", "t", "r", "u", "n",
                                "c", "a", "t", "e", "d", ")">>

\* One invocation had a tool return exactly 300 characters and a tool return
\* 301, and emitted the finished event of each.
C20_Witness ==
    \E i \in Invs :
        /\ Len(MatchedEnds(i)) = 2
        /\ \E k \in 1..Len(ToolRecords(i)) : Len(ToolRecords(i)[k].content) = 300
        /\ \E k \in 1..Len(ToolRecords(i)) : Len(ToolRecords(i)[k].content) = 301

\* The lower-cased text holds the phrase at some offset.
HoldsPhrase(text, phrase) ==
    \E k \in 1..Len(text) :
        /\ k + Len(phrase) - 1 <= Len(text)
        /\ \A j \in 1..Len(phrase) : lower(text)[k + j - 1] = phrase[j]

\* C21: the status of a tool-call-finished event is "error" exactly when the
\* lower-cased tool output holds "no relevant", "not found" or "error", and
\* "success" otherwise; classifying raises nothing: an invocation whose
\* events carry a status has no fault other than a failed gateway call or a
\* raise of the runtime, and its error events are not its finished events.
C21_StatusHeuristic ==
    \A i \in Invs :
        /\ Len(MatchedEnds(i)) = Len(ToolRecords(i))
        /\ \A k \in 1..Len(MatchedEnds(i)) :
              LET output == ToolRecords(i)[k].raw_message.content
                  failed ==
                      \/ HoldsPhrase(output, <<"n", "o", " ", "r", "e", "l",
                                               "e", "v", "a", "n", "t">>)
                      \/ HoldsPhrase(output, <<"n", "o", "t", " ", "f", "o",
                                               "u", "n", "d">>)
                      \/ HoldsPhrase(output, <<"e", "r", "r", "o", "r">>)
              IN  MatchedEnds(i)[k].data.status =
                     IF failed THEN "error" ELSE "success"
        /\ \A k \in EventsOf(i, "tool_call_end") :
              /\ out[i][k].data.status \in {"error", "success"}
              /\ k = Len(out[i]) => (pc[i] = "closed" => fault[i] = "none")

\* The runtime started search_knowledge_base and completed it with the text
\* of an empty search; the finished event has status "error", a content event
\* followed it and the stream closed without a fault.
C21_Witness ==
    \E i \in Invs :
        /\ Len(out[i]) = 3
        /\ out[i][1].type = "tool_call_start"
        /\ out[i][1].data.name = search_knowledge_base
        /\ out[i][2].type = "tool_call_end"
        /\ out[i][2].data.status = "error"
        /\ Len(out[i][2].data.output_preview) = 30
        /\ out[i][3].type = "content"
        /\ pc[i] = "closed" /\ fault[i] = "none"

\* The messages of a log that the reconstructor turns into a turn.
TurnSources(messages) ==
    SelectSeq(messages, LAMBDA msg : msg.role \in {"user", "assistant", "tool"})

\* The turn is the one built from this message: same kind, content and
\* tool-call identifiers.
TurnOf(turn, msg) ==
    /\ turn.type = (IF msg.role = "user" THEN "human"
                    ELSE IF msg.role = "assistant" THEN "ai" ELSE "tool")
    /\ turn.content = OrEmpty(GetOrNone(msg.raw_message.content))
    /\ Len(turn.tool_calls) = Len(msg.raw_message.tool_calls)
    /\ \A n \in 1..Len(turn.tool_calls) :
          turn.tool_calls[n].id = msg.raw_message.tool_calls[n].id
    /\ msg.role = "tool" => turn.tool_call_id = msg.raw_message.tool_call_id

\* C22: reconstruction is deterministic and order-preserving: two requests
\* that loaded the same unmodified log hold identical turn sequences, equal
\* to a further reconstruction of that log, and the k-th turn is built from
\* the k-th user, assistant or tool message of the log: nothing is reordered
\* and a message the log holds twice gives two turns.
C22_ReconstructionOrder ==
    /\ \A i \in Invs, j \in Invs :
          ( /\ i # j
            /\ pc[i] = "save_user" /\ pc[j] = "save_user"
            /\ conv[i] = conv[j] ) =>
              /\ history[i] = history[j]
              /\ history[i] = <<SystemMessage>> \o Reconstructed(conv[i])[2]
    /\ \A c \in Convs :
          Reconstructed(c)[1] =>
              LET turns == Reconstructed(c)[2]
                  sources == TurnSources(log[c])
              IN  /\ Len(turns) = Len(sources)
                  /\ \A k \in 1..Len(turns) : TurnOf(turns[k], sources[k])

\* Two requests have both loaded a stored log that holds a system message
\* and duplicate records, and neither has written to it yet.
C22_Witness ==
    /\ pc[1] = "save_user" /\ pc[2] = "save_user" /\ conv[1] = conv[2]
    /\ \E msg \in Range(log[conv[1]]) : msg.role = "system"
    /\ \E j \in 1..Len(log[conv[1]]), k \in 1..Len(log[conv[1]]) :
          j < k /\ log[conv[1]][j] = log[conv[1]][k]
    /\ Len(history[1]) = Len(log[conv[1]])

\* The client-facing stream of invocation i is closed.
Done(i) == pc[i] \in {"closed", "cancelled"}

\* C23: with a finite runtime stream and gateway calls that return or fail,
\* every invocation that started eventually closes its stream; it emitted at
\* most one event per runtime event consumed, and the error event; and a
\* closed stream stays closed and gets no further event.
C23_StreamCloses ==
    /\ \A i \in Invs : Arrived(i) ~> Done(i)
    /\ [](\A i \in Invs : Len(out[i]) + budget <= MaxSoloEvents + 1)
    /\ [][\A i \in Invs :
            Done(i) => (pc'[i] = pc[i] /\ out'[i] = out[i])]_vars

\* An invocation consumed every event of the stream, tool events among
\* them, and closed normally.
C23_Witness ==
    \E i \in Invs :
        /\ pc[i] = "closed" /\ fault[i] = "none"
        /\ budget = 0
        /\ EventsOf(i, "tool_call_end") # {}
        /\ EventsOf(i, "content") # {}

\* The assistant messages with tool calls that invocation i persisted.
ToolCallMessages(i) ==
    {k \in SavedBy(i, "assistant") : log[conv[i]][k].raw_message.tool_calls # <<>>}

\* C24: once a tool start was handled, current_tool_calls holds exactly one
\* entry, the call started last, and tool_call_assistant_saved is true;
\* every assistant message with tool calls the invocation persisted carries
\* exactly one call, and there are as many of them as tool-call-started
\* events, one per start and with its id, also when tools are started before
\* earlier ones complete.
C24_OneCallPerGroup ==
    \A i \in Invs :
        LET starts == EventsOf(i, "tool_call_start")
        IN  /\ (starts # {} /\ fault[i] # "save") =>
                  /\ Len(current_tool_calls[i]) = 1
                  /\ tool_call_assistant_saved[i]
                  /\ \E k \in starts :
                        /\ \A j \in starts : j <= k
                        /\ current_tool_calls[i][1].id = out[i][k].data.id
            /\ \A k \in ToolCallMessages(i) :
                  Len(log[conv[i]][k].raw_message.tool_calls) = 1
            /\ Cardinality(ToolCallMessages(i)) = Cardinality(starts)
            /\ \A k \in starts : \E m \in ToolCallMessages(i) :
                  log[conv[i]][m].raw_message.tool_calls[1].id = out[i][k].data.id

\* Three tools were started before any of them completed.
C24_Witness ==
    \E i \in Invs :
        /\ Cardinality(EventsOf(i, "tool_call_start")) = 3
        /\ EventsOf(i, "tool_call_end") = {}
        /\ pc[i] = "streaming"

\* The payloads of the content events of invocation i, concatenated in the
\* order they were emitted.
RECURSIVE ContentOf(_)
ContentOf(events) ==
    IF events = <<>> THEN <<>>
    ELSE (IF events[1].type = "content" THEN events[1].data ELSE <<>>)
         \o ContentOf(Tail(events))

\* C25: final_response is the concatenation, in emission order, of the
\* payloads of all content events of the invocation, those before and
\* between tool cycles included; when the invocation completed normally with
\* a non-empty fragment, its final assistant message holds exactly that text.
C25_FinalContentIsConcatenation ==
    \A i \in Invs :
        /\ Arrived(i) => final_response[i] = ContentOf(out[i])
        /\ (pc[i] = "closed" /\ fault[i] = "none" /\ ContentOf(out[i]) # <<>>) =>
              /\ Cardinality(FinalMessages(i)) = 1
              /\ \A k \in FinalMessages(i) :
                    /\ log[conv[i]][k].content = ContentOf(out[i])
                    /\ log[conv[i]][k].raw_message.content = ContentOf(out[i])
                    /\ k = Len(log[conv[i]]) \/ log[conv[i]][k + 1].inv # i

\* An invocation completed normally with a fragment before its tool cycle
\* and a fragment after it.
C25_Witness ==
    \E i \in Invs :
        /\ pc[i] = "closed" /\ fault[i] = "none"
        /\ Len(out[i]) = 4
        /\ out[i][1].type = "content"
        /\ out[i][2].type = "tool_call_start"
        /\ out[i][3].type = "tool_call_end"
        /\ out[i][4].type = "content"
        /\ out[i][1].data # out[i][4].data
        /\ FinalMessages(i) # {}

\* The tool events of a stream, in order.
ToolEvents(i) ==
    SelectSeq(out[i], LAMBDA e : e.type \in {"tool_call_start", "tool_call_end"})

\* Invocation i completed normally and each tool it started completed before
\* the next one was started.
SequentialRun(i) ==
    /\ pc[i] = "closed" /\ fault[i] = "none"
    /\ Len(ToolEvents(i)) % 2 = 0
    /\ \A k \in 1..Len(ToolEvents(i)) :
          ToolEvents(i)[k].type =
              (IF k % 2 = 1 THEN "tool_call_start" ELSE "tool_call_end")

\* C26: after a normal run with strictly sequential tool cycles on a
\* conversation of its own, the reconstruction of the log succeeds and is the
\* user turn, then for each cycle an assistant turn with one tool call (the
\* id, name and arguments of the started event) immediately followed by the
\* tool-result turn with that id, the name and the output, then the final
\* content turn last when there was content; every record has its turn.
C26_RoundTrip ==
    \A i \in Invs :
        (SequentialRun(i) /\ RecordsOf(log[conv[i]], i) = log[conv[i]]) =>
            LET turns == Reconstructed(conv[i])[2]
                events == ToolEvents(i)
                cycles == Len(events) \div 2
                text == ContentOf(out[i])
            IN  /\ Reconstructed(conv[i])[1]
                /\ Len(turns) = Len(log[conv[i]])
                /\ Len(turns) = 1 + 2 * cycles + (IF text # <<>> THEN 1 ELSE 0)
                /\ turns[1] = HumanMessage(user_message[i])
                /\ \A c \in 1..cycles :
                      LET started == events[2 * c - 1].data
                          finished == events[2 * c].data
                      IN  /\ turns[2 * c].type = "ai"
                          /\ turns[2 * c].content = <<>>
                          /\ turns[2 * c].tool_calls =
                                <<[name |-> started.name,
                                   args |-> started.args,
                                   id |-> started.id]>>
                          /\ turns[2 * c + 1].type = "tool"
                          /\ turns[2 * c + 1].tool_call_id = started.id
                          /\ turns[2 * c + 1].name = started.name
                          /\ turns[2 * c + 1].content = finished.output_preview
                          /\ finished.id = started.id
                /\ text # <<>> =>
                      /\ turns[Len(turns)].type = "ai"
                      /\ turns[Len(turns)].content = text
                      /\ turns[Len(turns)].tool_calls = <<>>

\* A run of two sequential cycles with different arguments, the second with
\* two of them, that completed normally.
C26_Witness ==
    \E i \in Invs :
        /\ SequentialRun(i)
        /\ Len(ToolEvents(i)) = 4
        /\ Len(ToolEvents(i)[3].data.args) = 2
        /\ ToolEvents(i)[1].data.args # ToolEvents(i)[3].data.args
        /\ Len(log[conv[i]]) = 5

====
